---- MODULE Spec2Model ----
(***************************************************************************)
(* State-machine model of ctgan/synthesizers/ctgan.py: the Discriminator   *)
(* pack assertion, the CTGANSynthesizer constructor, discrete-column       *)
(* validation, the fit loop of both training tracks with its best-state    *)
(* bookkeeping, and sample.                                                *)
(*                                                                         *)
(* Tensors are abstracted to what the control flow reads: a batch is its   *)
(* row count, a loss is an integer, a parameter set is a pair              *)
(* <<object, version>> whose version grows with every optimizer step.      *)
(* A state_dict is a reference to the live parameters of a module, as      *)
(* torch returns it, so it is modelled as the identity of that module.     *)
(***************************************************************************)
EXTENDS Integers, Sequences, FiniteSets, TLC

\* ------------------------------------------------------------------ bounds
MaxEpochs == 2
MaxDSteps == 2
MaxRows   == 4
MaxFits   == 2
MaxN      == 5
MaxCols   == 2

\* Constructor arguments explored (batch_size 1 is the odd one the
\* constructor rejects; pac 4 does not divide batch_size 2).
BatchSizes == {1, 2, 4}
Pacs       == {1, 2, 4}
Tracks     == {"GAN", "NF"}
\* torch RNG seeds in force when fit is entered.
Seeds      == {1, 2}

\* The literal of line 325 is 999999999999999999.99999999999999 (1e18); it
\* is kept at nine digits because TLC integers are 32-bit.  Only its order
\* relative to loss values is read by the code.
MinLossInit == 999999999

NoneVal == "None"
NoError == [type |-> "none", line |-> 0, offenders |-> {}]
Unset   == [owner |-> "unset", obj |-> 0]
NotSampled == [status |-> "none", n |-> 0, column |-> FALSE, value |-> FALSE,
               chunks |-> 0, rows |-> <<>>]

VARIABLES
    pc,                \* position of the caller / of fit
    cfg,               \* constructor arguments kept on self
    train_data,        \* fit argument: [kind, rows, ncols]
    discrete_columns,  \* fit argument, alive until validation has run
    seed,              \* RNG seed in force for the current fit call
    error,             \* exception that ended the last call, or NoError
    glosses, dlosses,  \* self.glosses, self.dlosses
    min_loss,          \* self.min_loss
    best_model_sd,     \* self.best_model_sd: reference to a module's live parameters
    generator,         \* self.generator: 0 is None, k the k-th Generator built
    genParams,         \* parameters of every Generator object built so far
    nfParams,          \* parameters of the flow model (one object for all calls)
    discParams,        \* parameters of the local discriminator
    gradG, gradD,      \* losses accumulated in the .grad of generator / discriminator
    gradNF,            \* losses accumulated in the .grad of the flow model
    i, id_, n,         \* loop counters of fit
    steps_per_epoch,
    fits,              \* number of fit calls made on this object
    sampled,           \* outcome of the last sample call
    \* history variables (observations, not program state)
    outerIters,        \* outer iterations completed in the current fit call
    dStepsIter,        \* discriminator optimizer steps in the current outer iteration
    dOps,              \* operations of the current discriminator inner step, in order
    lossesSeen,        \* losses compared with min_loss in the current fit call
    minStepParams,     \* parameter values the trained model had at the recorded minimum
    applied,           \* gradients used by the last optimizer step: [who, grads]
    observed           \* histories after the first completed fit: [seed, rows, g, d]

vars == <<pc, cfg, train_data, discrete_columns, seed, error, glosses, dlosses,
          min_loss, best_model_sd, generator, genParams, nfParams, discParams,
          gradG, gradD, gradNF, i, id_, n, steps_per_epoch, fits, sampled,
          outerIters, dStepsIter, dOps, lossesSeen, minStepParams, applied,
          observed>>

\* ------------------------------------------------------------------ helpers
Max(a, b) == IF a >= b THEN a ELSE b
Min(a, b) == IF a <= b THEN a ELSE b
Range(s) == {s[k] : k \in 1..Len(s)}

RECURSIVE SeqMin(_)
SeqMin(s) == IF Len(s) = 1 THEN s[1] ELSE Min(s[1], SeqMin(Tail(s)))

Err(t, l) == [type |-> t, line |-> l, offenders |-> {}]

\* ------------------------------------------------------------------ Discriminator
\* Mutant of ForwardAccepts: the assertion is missing.
ForwardAcceptsAny(rows, pac) == TRUE

\* Discriminator.forward, line 52: assert input.size()[0] % self.pac == 0
ForwardAccepts(rows, pac) == rows % pac = 0

\* calc_gradient_penalty, line 35: alpha * real_data + (1 - alpha) * fake_data
\* broadcasts along the row dimension: equal row counts, or one of them 1.
PenaltyShapesOk(realRows, fakeRows) ==
    realRows = fakeRows \/ realRows = 1 \/ fakeRows = 1

\* ------------------------------------------------------------------ __init__
\* line 151: assert batch_size % 2 == 0
CtorAccepts(batch_size) == batch_size % 2 = 0

Construct ==
    /\ pc = "new"
    /\ \E b \in BatchSizes, p \in Pacs, k \in 0..MaxDSteps, e \in 0..MaxEpochs,
          t \in Tracks, nf \in BOOLEAN :
          IF CtorAccepts(b)
          THEN /\ cfg' = [batch_size |-> b, pac |-> p, discriminator_steps |-> k,
                          epochs |-> e, training_track |-> t, nfgenerator |-> nf]
               /\ pc' = "idle"
               /\ error' = NoError
          ELSE /\ cfg' = cfg
               /\ pc' = "ctor_failed"
               /\ error' = Err("AssertionError", 151)
    /\ glosses' = <<>>
    /\ dlosses' = <<>>
    /\ generator' = 0
    /\ UNCHANGED <<train_data, discrete_columns, seed, min_loss, best_model_sd,
                   genParams, nfParams, discParams, gradG, gradD, gradNF, i, id_, n,
                   steps_per_epoch, fits, sampled, outerIters, dStepsIter, dOps,
                   lossesSeen, minStepParams, applied, observed>>

NoData == [kind |-> NoneVal, rows |-> 0, ncols |-> 0]

\* Everything but the caller's position, the constructor arguments and the
\* arguments of a call: no call has been made on the object yet.
Fresh ==
    /\ seed = 0
    /\ error = NoError
    /\ glosses = <<>>
    /\ dlosses = <<>>
    /\ min_loss = 0
    /\ best_model_sd = Unset
    /\ generator = 0
    /\ genParams = <<>>
    /\ nfParams = <<0, 0>>
    /\ discParams = 0
    /\ gradG = {}
    /\ gradD = {}
    /\ gradNF = {}
    /\ i = 0
    /\ id_ = 0
    /\ n = 0
    /\ steps_per_epoch = 0
    /\ sampled = NotSampled
    /\ outerIters = 0
    /\ dStepsIter = 0
    /\ dOps = <<>>
    /\ lossesSeen = <<>>
    /\ minStepParams = <<0, 0>>
    /\ applied = [who |-> "none", grads |-> {}]
    /\ observed = [seed |-> 0, rows |-> 0, g |-> <<>>, d |-> <<>>]

Init ==
    /\ pc = "new"
    /\ cfg = [batch_size |-> 0, pac |-> 0, discriminator_steps |-> 0,
              epochs |-> 0, training_track |-> "GAN", nfgenerator |-> FALSE]
    /\ train_data = NoData
    /\ discrete_columns = <<>>
    /\ fits = 0
    /\ Fresh

\* ------------------------------------------------------------------ fit: entry
Kinds == {"DataFrame", "ndarray", "other"}

\* The name of the j-th column of a labeled table.
Name(j) == <<"col", j>>

\* train_data.columns of a labeled table with k columns.
Columns(k) == {Name(j) : j \in 1..k}

\* Identifiers a caller may pass for a table of each kind: names up to one the
\* widest table lacks, indices from -1 to the widest table's column count.
Identifiers(kind) ==
    IF kind = "DataFrame" THEN {Name(j) : j \in 1..(MaxCols + 1)}
    ELSE IF kind = "ndarray" THEN (-1)..MaxCols
    ELSE {}

\* Every list of at most two identifiers: empty, valid, invalid, mixed, repeated.
AllLists(kind) ==
    {<<>>} \cup {<<a>> : a \in Identifiers(kind)}
           \cup {<<a, b>> : a \in Identifiers(kind), b \in Identifiers(kind)}

\* The lists fit is called with in the life-cycle model: none, one present,
\* one absent (the table there has MaxCols columns).
CallLists(kind) ==
    IF kind = "DataFrame" THEN {<<>>, <<Name(1)>>, <<Name(MaxCols + 1)>>}
    ELSE IF kind = "ndarray" THEN {<<>>, <<0>>, <<MaxCols>>}
    ELSE {<<>>}

Callable == pc \in {"idle", "done", "error"}

\* fit is entered (line 290): its arguments become its locals.
FitCall ==
    /\ Callable
    /\ fits < MaxFits
    /\ \E kind \in Kinds :
         \E dc \in CallLists(kind) :
            /\ train_data' = [kind |-> kind, rows |-> 0, ncols |-> MaxCols]
            /\ discrete_columns' = dc
    /\ pc' = "validate"
    /\ error' = NoError
    /\ fits' = fits + 1
    /\ sampled' = NotSampled
    /\ UNCHANGED <<cfg, seed, glosses, dlosses, min_loss, best_model_sd, generator,
                   genParams, nfParams, discParams, gradG, gradD, gradNF, i, id_, n,
                   steps_per_epoch, outerIters, dStepsIter, dOps, lossesSeen,
                   minStepParams, applied, observed>>

\* line 278: set(discrete_columns) - set(train_data.columns)
InvalidColumnsDF(dc, columns) == Range(dc) \ columns

\* Mutant of InvalidIndex: the upper bound is off by one.
InvalidIndexOffByOne(column, ncols) == column < 0 \/ column > ncols

\* line 282: column < 0 or column >= train_data.shape[1]
InvalidIndex(column, ncols) == column < 0 \/ column >= ncols

\* lines 280-283: the list built by the loop, in order, repeats kept.
RECURSIVE InvalidColumnsND(_, _)
InvalidColumnsND(dc, ncols) ==
    IF dc = <<>> THEN <<>>
    ELSE IF InvalidIndex(Head(dc), ncols)
         THEN <<Head(dc)>> \o InvalidColumnsND(Tail(dc), ncols)
         ELSE InvalidColumnsND(Tail(dc), ncols)

\* _validate_discrete_columns, lines 277-288: the exception it raises.
ValidationError(td, dc) ==
    IF td.kind = "DataFrame"
    THEN IF InvalidColumnsDF(dc, Columns(td.ncols)) # {}
         THEN [type |-> "ValueError", line |-> 288,
               offenders |-> InvalidColumnsDF(dc, Columns(td.ncols))]
         ELSE NoError
    ELSE IF td.kind = "ndarray"
    THEN IF InvalidColumnsND(dc, td.ncols) # <<>>
         THEN [type |-> "ValueError", line |-> 288,
               offenders |-> Range(InvalidColumnsND(dc, td.ncols))]
         ELSE NoError
    ELSE Err("TypeError", 285)

\* line 302.  discrete_columns is not read again by fit, so it is dropped here.
Validate ==
    /\ pc = "validate"
    /\ error' = ValidationError(train_data, discrete_columns)
    /\ pc' = IF error' = NoError THEN "loader" ELSE "error"
    /\ discrete_columns' = IF error' = NoError THEN <<>> ELSE discrete_columns
    /\ UNCHANGED <<cfg, train_data, seed, glosses, dlosses, min_loss, best_model_sd,
                   generator, genParams, nfParams, discParams, gradG, gradD, gradNF, i, id_,
                   n, steps_per_epoch, fits, sampled, outerIters, dStepsIter, dOps,
                   lossesSeen, minStepParams, applied, observed>>

\* line 312 reads train_data.values, an attribute only a DataFrame has.
HasValues(kind) == kind = "DataFrame"

\* lines 304-313: the DataLoader is built over train_data.values.  The table's
\* row count is fixed here, where the data is first read.
Loader ==
    /\ pc = "loader"
    /\ IF HasValues(train_data.kind)
       THEN /\ \E r \in 1..MaxRows :
                  train_data' = [train_data EXCEPT !.rows = r, !.ncols = 0]
            /\ pc' = "setup"
            /\ error' = NoError
       ELSE /\ train_data' = train_data
            /\ pc' = "error"
            /\ error' = Err("AttributeError", 312)
    /\ UNCHANGED <<cfg, discrete_columns, seed, glosses, dlosses, min_loss,
                   best_model_sd, generator, genParams, nfParams, discParams, gradG,
                   gradD, gradNF, i, id_, n, steps_per_epoch, fits, sampled, outerIters,
                   dStepsIter, dOps, lossesSeen, minStepParams, applied, observed>>

\* ------------------------------------------------------------------ fit: setup
\* Mutant of StepsPerEpoch: the clamp to at least one step is missing.
StepsPerEpochUnclamped(rows, batch_size) == rows \div batch_size

\* line 376: max(len(train_data) // self._batch_size, 1)
StepsPerEpoch(rows, batch_size) == Max(rows \div batch_size, 1)

\* First statement of the body of one outer iteration (lines 382, 383, 478).
BodyEntry ==
    IF cfg.training_track = "GAN"
    THEN IF cfg.discriminator_steps > 0 THEN "d_forward" ELSE "g_forward"
    ELSE "nf_forward"

\* lines 380-381: the loops run range(epochs) x range(steps_per_epoch).
LoopEntry(epochs, spe) == IF epochs > 0 /\ spe > 0 THEN BodyEntry ELSE "restore"

\* lines 380-381: position after the iteration (ii, jj) has completed.
AfterIteration(ii, jj, epochs, spe) ==
    IF jj + 1 < spe THEN [pc |-> BodyEntry, i |-> ii, id_ |-> jj + 1]
    ELSE IF ii + 1 < epochs THEN [pc |-> BodyEntry, i |-> ii + 1, id_ |-> 0]
    ELSE [pc |-> "restore", i |-> ii, id_ |-> jj]

\* lines 325-376: min_loss reset, fresh Generator and Discriminator, optimizers.
\* The RNG seed in force is fixed here, where the first random draw is made.
Setup ==
    /\ pc = "setup"
    /\ \E s \in Seeds : seed' = s
    /\ min_loss' = MinLossInit
    /\ generator' = Len(genParams) + 1
    /\ genParams' = Append(genParams, <<Len(genParams) + 1, 0>>)
    /\ discParams' = 0
    /\ gradG' = {}
    /\ gradD' = {}
    /\ steps_per_epoch' = StepsPerEpoch(train_data.rows, cfg.batch_size)
    /\ i' = 0 /\ id_' = 0 /\ n' = 0
    /\ outerIters' = 0 /\ dStepsIter' = 0 /\ dOps' = <<>> /\ lossesSeen' = <<>>
    /\ IF cfg.training_track = "NF" /\ ~cfg.nfgenerator
       THEN \* line 362: attribute assignment on None
            /\ pc' = "error"
            /\ error' = Err("AttributeError", 362)
            /\ best_model_sd' = best_model_sd
       ELSE /\ pc' = LoopEntry(cfg.epochs, steps_per_epoch')
            /\ error' = NoError
            /\ best_model_sd' = IF cfg.training_track = "NF"
                                THEN [owner |-> "nfgenerator", obj |-> 0]   \* line 365
                                ELSE best_model_sd
    /\ UNCHANGED <<cfg, train_data, discrete_columns, glosses, dlosses, nfParams,
                   gradNF, fits, sampled, minStepParams, applied, observed>>

\* ------------------------------------------------------------------ losses
\* The loss of a step is computed by the tensor engine from the random draws
\* of the call and the parameters being scored; with the seed, data and
\* configuration fixed it is a function of t, one more than the number of
\* updates the scored model has had.  The seeds sample the shapes a loss
\* curve can take: one that falls to a minimum at step 2 and rises again, and
\* one that starts above the initial min_loss and falls below it at step 3.
LossCurve(s, t) ==
    IF s % 2 = 1 THEN (IF t < 2 THEN 2 - t ELSE t - 2) + 1
    ELSE MinLossInit + 2 - t

\* line 467: loss_g of a generator about to take its t-th update.
GLoss(s, t) == LossCurve(s, t)
\* lines 494, 511: nfloss of a flow model about to take its t-th update.
NFLoss(s, t) == LossCurve(s, t)
\* line 428: loss_d of discriminator step t of the call.
DLoss(s, t) == s - t

\* lines 469, 513: loss.item() < self.min_loss
NewMinimum(loss, min) == loss < min

\* line 396: next(iter(DataLoader(..., batch_size, shuffle=True))) yields the
\* first batch of a fresh shuffle: batch_size rows, or all rows if fewer.
RealRows(rows, batch_size) == Min(rows, batch_size)

\* ------------------------------------------------------------------ parameters
\* Module.state_dict(): the returned tensors share storage with the module's
\* parameters, so the dictionary is a reference to the module (lines 365, 472, 516).
StateDict(owner, obj) == [owner |-> owner, obj |-> obj]

\* optimizer.step(): an in-place update of the parameter tensors.
OptimizerStep(p) == <<p[1], p[2] + 1>>

\* A gradient reset that keeps what had been accumulated.
ZeroGradSkipped(grads) == grads

\* zero_grad() (lines 431, 475, 521): the gradients accumulated on the
\* parameters, given as the set of losses backpropagated into them, are cleared.
ZeroGrad(grads) == {}

\* ------------------------------------------------------------------ fit: adversarial track
\* lines 384-429: noise and real batch drawn, both scored, penalty and
\* critic loss computed, critic loss recorded.
DForward ==
    /\ pc = "d_forward"
    /\ dOps' = <<>>
    /\ LET fakeRows == cfg.batch_size
           realRows == RealRows(train_data.rows, cfg.batch_size)
       IN  IF ~ForwardAccepts(fakeRows, cfg.pac)
           THEN /\ pc' = "error" /\ error' = Err("AssertionError", 423)
                /\ dlosses' = dlosses
           ELSE IF ~ForwardAccepts(realRows, cfg.pac)
           THEN /\ pc' = "error" /\ error' = Err("AssertionError", 424)
                /\ dlosses' = dlosses
           ELSE IF ~PenaltyShapesOk(realRows, fakeRows)
           THEN /\ pc' = "error" /\ error' = Err("RuntimeError", 426)
                /\ dlosses' = dlosses
           ELSE /\ pc' = "d_zero" /\ error' = NoError
                /\ dlosses' = Append(dlosses,
                       DLoss(seed, outerIters * cfg.discriminator_steps + n + 1))
    /\ UNCHANGED <<cfg, train_data, discrete_columns, seed, glosses, min_loss,
                   best_model_sd, generator, genParams, nfParams, discParams, gradG,
                   gradD, gradNF, i, id_, n, steps_per_epoch, fits, sampled,
                   outerIters, dStepsIter, lossesSeen, minStepParams, applied,
                   observed>>

\* line 431: optimizerD.zero_grad()
DZeroGrad ==
    /\ pc = "d_zero"
    /\ gradD' = ZeroGrad(gradD)
    /\ dOps' = Append(dOps, "zero_grad")
    /\ pc' = "d_pen_bw"
    /\ UNCHANGED <<cfg, train_data, discrete_columns, seed, error, glosses, dlosses,
                   min_loss, best_model_sd, generator, genParams, nfParams, discParams,
                   gradG, gradNF, i, id_, n, steps_per_epoch, fits, sampled,
                   outerIters, dStepsIter, lossesSeen, minStepParams, applied,
                   observed>>

\* line 432: pen.backward(retain_graph=True).  The fake batch is not detached,
\* so the gradient also reaches the generator's parameters.
DPenBackward ==
    /\ pc = "d_pen_bw"
    /\ gradD' = gradD \cup {"pen"}
    /\ gradG' = gradG \cup {"pen"}
    /\ dOps' = Append(dOps, "pen.backward")
    /\ pc' = "d_loss_bw"
    /\ UNCHANGED <<cfg, train_data, discrete_columns, seed, error, glosses, dlosses,
                   min_loss, best_model_sd, generator, genParams, nfParams, discParams,
                   gradNF, i, id_, n, steps_per_epoch, fits, sampled, outerIters,
                   dStepsIter, lossesSeen, minStepParams, applied, observed>>

\* line 433: loss_d.backward()
DLossBackward ==
    /\ pc = "d_loss_bw"
    /\ gradD' = gradD \cup {"loss_d"}
    /\ gradG' = gradG \cup {"loss_d"}
    /\ dOps' = Append(dOps, "loss_d.backward")
    /\ pc' = "d_step"
    /\ UNCHANGED <<cfg, train_data, discrete_columns, seed, error, glosses, dlosses,
                   min_loss, best_model_sd, generator, genParams, nfParams, discParams,
                   gradNF, i, id_, n, steps_per_epoch, fits, sampled, outerIters,
                   dStepsIter, lossesSeen, minStepParams, applied, observed>>

\* line 434: optimizerD.step(), then the inner loop of line 383 advances.
DStep ==
    /\ pc = "d_step"
    /\ discParams' = discParams + 1
    /\ applied' = [who |-> "discriminator", grads |-> gradD]
    /\ dOps' = Append(dOps, "step")
    /\ dStepsIter' = dStepsIter + 1
    /\ n' = n + 1
    /\ pc' = IF n + 1 < cfg.discriminator_steps THEN "d_forward" ELSE "g_forward"
    /\ UNCHANGED <<cfg, train_data, discrete_columns, seed, error, glosses, dlosses,
                   min_loss, best_model_sd, generator, genParams, nfParams, gradG,
                   gradD, gradNF, i, id_, steps_per_epoch, fits, sampled, outerIters,
                   lossesSeen, minStepParams, observed>>

\* lines 436-472: noise drawn, fake batch scored, generator loss recorded and
\* compared with min_loss; on a new minimum the generator's state_dict is kept.
GForward ==
    /\ pc = "g_forward"
    /\ IF ~ForwardAccepts(cfg.batch_size, cfg.pac)
       THEN /\ pc' = "error" /\ error' = Err("AssertionError", 460)
            /\ UNCHANGED <<glosses, lossesSeen, min_loss, best_model_sd, minStepParams>>
       ELSE LET loss_g == GLoss(seed, genParams[generator][2] + 1)
            IN  /\ pc' = "g_zero" /\ error' = NoError
                /\ glosses' = Append(glosses, loss_g)
                /\ lossesSeen' = Append(lossesSeen, loss_g)
                /\ IF NewMinimum(loss_g, min_loss)
                   THEN /\ min_loss' = loss_g
                        /\ best_model_sd' = StateDict("generator", generator)
                        /\ minStepParams' = genParams[generator]
                   ELSE UNCHANGED <<min_loss, best_model_sd, minStepParams>>
    /\ UNCHANGED <<cfg, train_data, discrete_columns, seed, dlosses, generator,
                   genParams, nfParams, discParams, gradG, gradD, gradNF, i, id_, n,
                   steps_per_epoch, fits, sampled, outerIters, dStepsIter, dOps,
                   applied, observed>>

\* line 475: optimizerG.zero_grad()
GZeroGrad ==
    /\ pc = "g_zero"
    /\ gradG' = ZeroGrad(gradG)
    /\ pc' = "g_bw"
    /\ UNCHANGED <<cfg, train_data, discrete_columns, seed, error, glosses, dlosses,
                   min_loss, best_model_sd, generator, genParams, nfParams, discParams,
                   gradD, gradNF, i, id_, n, steps_per_epoch, fits, sampled,
                   outerIters, dStepsIter, dOps, lossesSeen, minStepParams, applied,
                   observed>>

\* line 476: loss_g.backward(); the loss is a discriminator score, so the
\* gradient also lands in the discriminator's parameters.
GBackward ==
    /\ pc = "g_bw"
    /\ gradG' = gradG \cup {"loss_g"}
    /\ gradD' = gradD \cup {"loss_g"}
    /\ pc' = "g_step"
    /\ UNCHANGED <<cfg, train_data, discrete_columns, seed, error, glosses, dlosses,
                   min_loss, best_model_sd, generator, genParams, nfParams, discParams,
                   gradNF, i, id_, n, steps_per_epoch, fits, sampled, outerIters,
                   dStepsIter, dOps, lossesSeen, minStepParams, applied, observed>>

\* line 477: optimizerG.step(), then the loops of lines 380-381 advance.
GStep ==
    /\ pc = "g_step"
    /\ genParams' = [genParams EXCEPT ![generator] = OptimizerStep(@)]
    /\ applied' = [who |-> "generator", grads |-> gradG]
    /\ outerIters' = outerIters + 1
    /\ dStepsIter' = 0
    /\ n' = 0
    /\ LET nxt == AfterIteration(i, id_, cfg.epochs, steps_per_epoch)
       IN  pc' = nxt.pc /\ i' = nxt.i /\ id_' = nxt.id_
    /\ UNCHANGED <<cfg, train_data, discrete_columns, seed, error, glosses, dlosses,
                   min_loss, best_model_sd, generator, nfParams, discParams, gradG,
                   gradD, gradNF, steps_per_epoch, fits, sampled, dOps, lossesSeen,
                   minStepParams, observed>>

\* ------------------------------------------------------------------ fit: flow track
\* lines 479-516: real batch drawn, flow loss computed and compared with
\* min_loss; on a new minimum the flow model's state_dict is kept.
NFForward ==
    /\ pc = "nf_forward"
    /\ LET nfloss == NFLoss(seed, nfParams[2] + 1)
       IN  /\ lossesSeen' = Append(lossesSeen, nfloss)
           /\ IF NewMinimum(nfloss, min_loss)
              THEN /\ min_loss' = nfloss
                   /\ best_model_sd' = StateDict("nfgenerator", 0)
                   /\ minStepParams' = nfParams
              ELSE UNCHANGED <<min_loss, best_model_sd, minStepParams>>
    /\ pc' = "nf_zero"
    /\ UNCHANGED <<cfg, train_data, discrete_columns, seed, error, glosses, dlosses,
                   generator, genParams, nfParams, discParams, gradG, gradD, gradNF, i,
                   id_, n, steps_per_epoch, fits, sampled, outerIters, dStepsIter,
                   dOps, applied, observed>>

\* line 521: self.nfgenerator.zero_grad()
NFZeroGrad ==
    /\ pc = "nf_zero"
    /\ gradNF' = ZeroGrad(gradNF)
    /\ pc' = "nf_bw"
    /\ UNCHANGED <<cfg, train_data, discrete_columns, seed, error, glosses, dlosses,
                   min_loss, best_model_sd, generator, genParams, nfParams, discParams,
                   gradG, gradD, i, id_, n, steps_per_epoch, fits, sampled, outerIters,
                   dStepsIter, dOps, lossesSeen, minStepParams, applied, observed>>

\* line 522: nfloss.backward(retain_graph=True)
NFBackward ==
    /\ pc = "nf_bw"
    /\ gradNF' = gradNF \cup {"nfloss"}
    /\ pc' = "nf_step"
    /\ UNCHANGED <<cfg, train_data, discrete_columns, seed, error, glosses, dlosses,
                   min_loss, best_model_sd, generator, genParams, nfParams, discParams,
                   gradG, gradD, i, id_, n, steps_per_epoch, fits, sampled, outerIters,
                   dStepsIter, dOps, lossesSeen, minStepParams, applied, observed>>

\* lines 523-524: nfoptimizer.step(), the loss is recorded, the loops advance.
NFStep ==
    /\ pc = "nf_step"
    /\ nfParams' = OptimizerStep(nfParams)
    /\ applied' = [who |-> "nfgenerator", grads |-> gradNF]
    /\ glosses' = Append(glosses, NFLoss(seed, nfParams[2] + 1))
    /\ outerIters' = outerIters + 1
    /\ LET nxt == AfterIteration(i, id_, cfg.epochs, steps_per_epoch)
       IN  pc' = nxt.pc /\ i' = nxt.i /\ id_' = nxt.id_
    /\ UNCHANGED <<cfg, train_data, discrete_columns, seed, error, dlosses, min_loss,
                   best_model_sd, generator, genParams, discParams, gradG, gradD,
                   gradNF, n, steps_per_epoch, fits, sampled, dStepsIter, dOps,
                   lossesSeen, minStepParams, observed>>

\* ------------------------------------------------------------------ fit: restore
\* The values a state_dict holds when it is read: those of the live parameters
\* it refers to.
SdValue(sd) == IF sd.owner = "generator" THEN genParams[sd.obj] ELSE nfParams

\* load_state_dict (strict): the dictionary's keys must be those of the module
\* it is loaded into.
KeysMatch(sd, target) == sd.owner = target

\* lines 535-538: the model load_state_dict is called on is chosen by whether a
\* flow model was supplied, whatever the training track.
RestoreTarget(nfgenerator) == IF ~nfgenerator THEN "generator" ELSE "nfgenerator"

\* lines 535-538: the kept state_dict is loaded into the generator, or into
\* the flow model when one was supplied.
Restore ==
    /\ pc = "restore"
    /\ LET target == RestoreTarget(cfg.nfgenerator)
           line   == IF ~cfg.nfgenerator THEN 536 ELSE 538
       IN  IF best_model_sd = Unset
           THEN /\ pc' = "error" /\ error' = Err("AttributeError", line)
                /\ UNCHANGED <<genParams, nfParams, observed>>
           ELSE IF ~KeysMatch(best_model_sd, target)
           THEN /\ pc' = "error" /\ error' = Err("RuntimeError", line)
                /\ UNCHANGED <<genParams, nfParams, observed>>
           ELSE /\ pc' = "done" /\ error' = NoError
                /\ IF target = "generator"
                   THEN /\ genParams' = [genParams EXCEPT ![generator] = SdValue(best_model_sd)]
                        /\ nfParams' = nfParams
                   ELSE /\ nfParams' = SdValue(best_model_sd)
                        /\ genParams' = genParams
                /\ observed' = IF observed.seed = 0
                               THEN [seed |-> seed, rows |-> train_data.rows,
                                     g |-> glosses, d |-> dlosses]
                               ELSE observed
    /\ UNCHANGED <<cfg, train_data, discrete_columns, seed, glosses, dlosses, min_loss,
                   best_model_sd, generator, discParams, gradG, gradD, gradNF, i, id_,
                   n, steps_per_epoch, fits, sampled, outerIters, dStepsIter, dOps,
                   lossesSeen, minStepParams, applied>>

\* ------------------------------------------------------------------ sample
\* Mutant of SampleSteps: the extra chunk is missing.
SampleStepsFloor(nn, batch_size) == nn \div batch_size

\* line 563: steps = n // self._batch_size + 1
SampleSteps(nn, batch_size) == nn \div batch_size + 1

\* lines 571, 574, 579: chunk c is batch_size rows; a row is <<chunk, index>>.
Chunk(c, batch_size) == [j \in 1..batch_size |-> <<c, j>>]

\* lines 567-581: the chunks 1..steps, concatenated in order.
RECURSIVE Concatenate(_, _)
Concatenate(steps, batch_size) ==
    IF steps = 0 THEN <<>>
    ELSE Concatenate(steps - 1, batch_size) \o Chunk(steps, batch_size)

\* line 582: data[:n] for n >= 0
Truncate(data, nn) == SubSeq(data, 1, Min(nn, Len(data)))

\* line 555: the conditioning vector is built only when both are given.
Conditioned(column, value) == column /\ value

\* lines 555-585.  self._transformer is None throughout (its construction in
\* fit is commented out), so building a conditioning vector raises.
Sample ==
    /\ Callable
    /\ \E nn \in 0..MaxN, column \in BOOLEAN, value \in BOOLEAN :
         LET steps == SampleSteps(nn, cfg.batch_size)
             fail(t, l) == /\ error' = Err(t, l)
                           /\ sampled' = [status |-> "error", n |-> nn, column |-> column,
                                          value |-> value, chunks |-> 0, rows |-> <<>>]
         IN  IF Conditioned(column, value) THEN fail("AttributeError", 556)
             ELSE IF cfg.training_track = "NF" /\ ~cfg.nfgenerator
             THEN fail("AttributeError", 566)
             ELSE IF cfg.training_track = "GAN" /\ generator = 0
             THEN fail("TypeError", 571)
             ELSE /\ error' = NoError
                  /\ sampled' = [status |-> "ok", n |-> nn, column |-> column,
                                 value |-> value, chunks |-> steps,
                                 rows |-> Truncate(Concatenate(steps, cfg.batch_size), nn)]
    /\ UNCHANGED <<pc, cfg, train_data, discrete_columns, seed, glosses, dlosses,
                   min_loss, best_model_sd, generator, genParams, nfParams, discParams,
                   gradG, gradD, gradNF, i, id_, n, steps_per_epoch, fits, outerIters,
                   dStepsIter, dOps, lossesSeen, minStepParams, applied, observed>>

\* ------------------------------------------------------------------ specifications
\* The steps of a fit call.
FitStep ==
    \/ FitCall \/ Validate \/ Loader \/ Setup
    \/ DForward \/ DZeroGrad \/ DPenBackward \/ DLossBackward \/ DStep
    \/ GForward \/ GZeroGrad \/ GBackward \/ GStep
    \/ NFForward \/ NFZeroGrad \/ NFBackward \/ NFStep
    \/ Restore

\* Life cycle of one synthesizer: construction, then fit calls.
Next == Construct \/ FitStep

Spec == Init /\ [][Next]_vars

\* A constructed synthesizer (pack size 1, one discriminator step, one epoch;
\* sample reads none of the three) that is fitted and sampled.
InitSample ==
    /\ pc = "idle"
    /\ cfg \in [batch_size : {b \in BatchSizes : CtorAccepts(b)}, pac : {1},
                discriminator_steps : {1}, epochs : {1},
                training_track : Tracks, nfgenerator : BOOLEAN]
    /\ train_data = NoData
    /\ discrete_columns = <<>>
    /\ fits = 0
    /\ Fresh

NextSample == FitStep \/ Sample

SpecSample == InitSample /\ [][NextSample]_vars

\* _validate_discrete_columns applied to every table and identifier list.
InitValidate ==
    /\ pc = "validate"
    /\ cfg = [batch_size |-> 2, pac |-> 1, discriminator_steps |-> 1,
              epochs |-> 1, training_track |-> "GAN", nfgenerator |-> FALSE]
    /\ \E kind \in Kinds, k \in 1..MaxCols :
          /\ train_data = [kind |-> kind, rows |-> 0, ncols |-> k]
          /\ discrete_columns \in AllLists(kind)
    /\ fits = 1
    /\ Fresh

SpecValidate == InitValidate /\ [][Validate]_vars

\* ------------------------------------------------------------------ claims
InFit == pc \notin {"new", "ctor_failed", "idle", "done", "error"}
GAN == cfg.training_track = "GAN"
Divides(pac, rows) == \E q \in 0..rows : q * pac = rows

\* The parameters load_state_dict of lines 535-538 has written.
Loaded == IF ~cfg.nfgenerator THEN genParams[generator] ELSE nfParams

\* C1: at the end of a fit call the loaded model state is the parameter state
\* of the step whose loss is the recorded minimum (the values scored at that
\* step or, at the latest, those its own optimizer step produced), not the
\* state of a later step.
C1_LoadedIsMinimumStepState ==
    (pc = "done" /\ min_loss < MinLossInit)
        => Loaded \in {minStepParams, <<minStepParams[1], minStepParams[2] + 1>>}

\* C2: a sample call that does not ask for conditioning, on a synthesizer whose
\* model exists, returns exactly n rows: n // batch_size + 1 chunks of
\* batch_size rows, at least n in total, cut to the first n.
C2_SampleReturnsExactlyN ==
    /\ (/\ sampled.status # "none"
        /\ ~(sampled.column /\ sampled.value)
        /\ IF GAN THEN generator # 0 ELSE cfg.nfgenerator)
          => sampled.status = "ok"
    /\ sampled.status = "ok" =>
          /\ Len(sampled.rows) = sampled.n
          /\ sampled.chunks * cfg.batch_size >= sampled.n
          /\ (sampled.chunks - 1) * cfg.batch_size <= sampled.n
          /\ \A k \in 1..sampled.n :
                sampled.rows[k] = <<((k - 1) \div cfg.batch_size) + 1,
                                    ((k - 1) % cfg.batch_size) + 1>>

C2_Witness ==
    /\ pc = "done"
    /\ sampled.status = "ok"
    /\ sampled.n = 3 * cfg.batch_size - 1
    /\ Len(sampled.rows) = sampled.n

\* C3: after a fit call under the adversarial track the discriminator-loss
\* history has length E*S*K and the generator-loss history has length E*S.
C3_HistoryLengths ==
    (pc = "done" /\ GAN) =>
        LET S == Max(train_data.rows \div cfg.batch_size, 1)
        IN  /\ Len(dlosses) = cfg.epochs * S * cfg.discriminator_steps
            /\ Len(glosses) = cfg.epochs * S

\* C4: once a loss has been compared with it, min_loss equals the smallest loss
\* observed so far in the fit call (which makes it non-increasing).
C4_RunningMinimum ==
    lossesSeen # <<>> => min_loss = SeqMin(lossesSeen)

\* The identifiers of dc that train_data lacks.
Absent(td, dc) ==
    IF td.kind = "DataFrame"
    THEN {c \in Range(dc) : \A j \in 1..td.ncols : c # Name(j)}
    ELSE {c \in Range(dc) : ~(0 <= c /\ c <= td.ncols - 1)}

\* C5: validation of a labeled table or raw matrix raises if and only if some
\* supplied identifier is absent, and then names exactly the absent ones.
C5_ValidationNamesAbsent ==
    [][(pc = "validate" /\ train_data.kind \in {"DataFrame", "ndarray"}) =>
          LET absent == Absent(train_data, discrete_columns)
          IN  IF absent = {}
              THEN pc' = "loader" /\ error' = NoError
              ELSE /\ pc' = "error"
                   /\ error'.type = "ValueError"
                   /\ error'.offenders = absent]_vars

C5_Witness ==
    /\ pc = "error"
    /\ error.type = "ValueError"
    /\ Len(discrete_columns) = 2
    /\ Cardinality(error.offenders) = 1
    /\ \E c \in Range(discrete_columns) : c \notin error.offenders

\* C6: a sample call that supplies exactly one of condition_column and
\* condition_value is rejected.
C6_LoneConditionRejected ==
    (sampled.status # "none" /\ sampled.column # sampled.value)
        => sampled.status = "error"

\* C7: the constructor accepts every even batch_size; a discriminator call
\* passes its assertion exactly when the row count is a multiple of pac, and
\* with a batch_size that is not a multiple of pac fit stops at its first
\* discriminator call, before any score or loss exists.
C7_PackAssertion ==
    /\ pc \notin {"new", "ctor_failed"} => cfg.batch_size % 2 = 0
    /\ pc \in {"d_zero", "d_pen_bw", "d_loss_bw", "d_step"} =>
          /\ Divides(cfg.pac, cfg.batch_size)
          /\ Divides(cfg.pac, Min(train_data.rows, cfg.batch_size))
    /\ pc \in {"g_zero", "g_bw", "g_step"} => Divides(cfg.pac, cfg.batch_size)
    /\ (pc = "error" /\ error.type = "AssertionError") =>
          /\ error.line \in {423, 460} => ~Divides(cfg.pac, cfg.batch_size)
          /\ error.line = 424 =>
                /\ Divides(cfg.pac, cfg.batch_size)
                /\ ~Divides(cfg.pac, Min(train_data.rows, cfg.batch_size))
    /\ (GAN /\ ~Divides(cfg.pac, cfg.batch_size)) =>
          /\ glosses = <<>> /\ dlosses = <<>>
          /\ pc \notin {"restore", "done"} \/ cfg.epochs = 0
          /\ (pc = "error" /\ error.line >= 380 /\ cfg.epochs > 0) =>
                /\ error.type = "AssertionError"
                /\ error.line = IF cfg.discriminator_steps > 0 THEN 423 ELSE 460
                /\ outerIters = 0 /\ n = 0

C7_Witness ==
    /\ pc = "error"
    /\ error = Err("AssertionError", 423)
    /\ cfg.batch_size % 2 = 0
    /\ ~Divides(cfg.pac, cfg.batch_size)

\* C8: with a labeled table or a raw matrix and valid identifiers, on a
\* synthesizer whose track has its model, fit raises nothing before the
\* training loop; with any other container it raises a TypeError there.
C8_BothContainersTrain ==
    /\ (/\ pc = "error"
        /\ train_data.kind \in {"DataFrame", "ndarray"}
        /\ GAN \/ cfg.nfgenerator)
          => (error.type = "ValueError" \/ error.line >= 380)
    /\ (pc = "error" /\ train_data.kind = "other") => error = Err("TypeError", 285)
    /\ InFit /\ pc # "validate" => train_data.kind # "other"

\* C9: a fit call that completes with the seed and data of an earlier completed
\* fit call leaves the loss histories that call left.
C9_SameSeedSameHistories ==
    (pc = "done" /\ observed.seed = seed /\ observed.rows = train_data.rows)
        => (glosses = observed.g /\ dlosses = observed.d)

FullDOps == <<"zero_grad", "pen.backward", "loss_d.backward", "step">>

\* C10: under the adversarial track the loop is left after exactly
\* epochs * max(num_rows // batch_size, 1) outer iterations; every generator
\* step comes after exactly discriminator_steps discriminator steps of its
\* iteration; a discriminator inner step runs zero_grad, pen.backward,
\* loss_d.backward, step in that order.
C10_LoopStructure ==
    GAN =>
      LET total == cfg.epochs * Max(train_data.rows \div cfg.batch_size, 1)
      IN  /\ pc \in {"restore", "done"} => outerIters = total
          /\ (pc = "error" /\ error.line \in {536, 538}) => outerIters = total
          /\ pc \in {"d_forward", "d_zero", "d_pen_bw", "d_loss_bw", "d_step",
                     "g_forward", "g_zero", "g_bw", "g_step"} => outerIters < total
          /\ pc \in {"d_forward", "d_zero", "d_pen_bw", "d_loss_bw", "d_step"} =>
                dStepsIter = n /\ n < cfg.discriminator_steps
          /\ pc \in {"g_forward", "g_zero", "g_bw", "g_step"} =>
                /\ dStepsIter = cfg.discriminator_steps
                /\ cfg.discriminator_steps > 0 => dOps = FullDOps
          /\ pc = "d_zero" => dOps = <<>>
          /\ pc = "d_pen_bw" => dOps = SubSeq(FullDOps, 1, 1)
          /\ pc = "d_loss_bw" => dOps = SubSeq(FullDOps, 1, 2)
          /\ pc = "d_step" => dOps = SubSeq(FullDOps, 1, 3)

C10_Witness ==
    /\ GAN /\ pc = "done"
    /\ cfg.epochs = 2 /\ cfg.discriminator_steps = 2
    /\ outerIters = 4
    /\ Len(dlosses) >= 8

\* The positions of the training loop, by the model being updated.
DPhase  == {"d_forward", "d_zero", "d_pen_bw", "d_loss_bw", "d_step"}
GPhase  == {"g_forward", "g_zero", "g_bw", "g_step"}
NFPhase == {"nf_forward", "nf_zero", "nf_bw", "nf_step"}

\* C11: in the training loop each model's parameters are written only by its
\* own optimizer step (outside the loop only the construction of lines 330-346
\* and the load of lines 535-538 write them): a discriminator step leaves the
\* generator and the flow model as they were, a generator step leaves the
\* discriminator and the flow model as they were, and a step of the flow track
\* leaves the generator, the discriminator and the discriminator-loss history
\* as they were. The gradients an optimizer step applies are exactly those of
\* the losses backpropagated since its own reset: pen and loss_d for the
\* discriminator, loss_g for the generator, nfloss for the flow model.
C11_OwnStepOwnGradients ==
    [][ /\ (genParams' # genParams) => pc \in {"setup", "g_step", "restore"}
        /\ (discParams' # discParams) => pc \in {"setup", "d_step"}
        /\ (nfParams' # nfParams) => pc \in {"nf_step", "restore"}
        /\ pc = "d_step" =>
              /\ discParams' # discParams
              /\ genParams' = genParams /\ nfParams' = nfParams
              /\ applied' = [who |-> "discriminator", grads |-> {"pen", "loss_d"}]
        /\ pc = "g_step" =>
              /\ genParams' # genParams
              /\ discParams' = discParams /\ nfParams' = nfParams
              /\ applied' = [who |-> "generator", grads |-> {"loss_g"}]
        /\ pc = "nf_step" =>
              /\ nfParams' # nfParams
              /\ applied' = [who |-> "nfgenerator", grads |-> {"nfloss"}]
        /\ pc \in NFPhase =>
              /\ genParams' = genParams
              /\ discParams' = discParams
              /\ dlosses' = dlosses
      ]_vars

\* A discriminator step taken after a generator update of the same fit call has
\* applied pen and loss_d only, although loss_g had been backpropagated through
\* the discriminator, and the generator still carries the gradients of pen and
\* loss_d that its own reset is about to clear.
C11_Witness ==
    /\ GAN /\ pc = "g_forward"
    /\ outerIters >= 1
    /\ applied = [who |-> "discriminator", grads |-> {"pen", "loss_d"}]
    /\ gradG = {"loss_g", "pen", "loss_d"}
    /\ gradD = {"pen", "loss_d"}

\* C12: whenever fit reaches its load of lines 535-538, best_model_sd is
\* defined and was assigned during this fit call: it is not the attribute
\* missing on a synthesizer that never took a snapshot, and it does not refer
\* to the Generator object an earlier fit call built.
C12_SnapshotOfThisFit ==
    pc = "restore" =>
        /\ best_model_sd # Unset
        /\ best_model_sd.owner = "generator" => best_model_sd.obj = generator

\* C13: at the load of lines 535-538 the model load_state_dict is called on is
\* the model the kept state_dict was captured from: a generator snapshot goes
\* into the generator and a flow-model snapshot into the flow model, for every
\* training track with the flow model supplied or absent.
C13_RestoredIntoOwner ==
    (pc = "restore" /\ best_model_sd # Unset) =>
        best_model_sd.owner = RestoreTarget(cfg.nfgenerator)

\* C14: in every discriminator inner step, whatever the number of rows of the
\* dataset, the real batch drawn at line 396 has batch_size rows, as many as
\* the fake batch, and the pack assertion of forward is never raised by the
\* real batch (line 424).
C14_RealBatchIsFull ==
    /\ (GAN /\ pc \in DPhase) =>
            RealRows(train_data.rows, cfg.batch_size) = cfg.batch_size
    /\ ~(pc = "error" /\ error = Err("AssertionError", 424))
====
